---- MODULE Spec2Model ----
(***************************************************************************)
(* A model of iso_alloc.c (src/src/iso_alloc.c): the root's zone table,    *)
(* each zone's two-bit-per-chunk bitmap, its free bit slot cache and the   *)
(* canaries kept in freed chunks, driven by _iso_alloc, _iso_free,         *)
(* verify_all_zones and stray writes of the program into chunk memory.     *)
(*                                                                         *)
(* The constants of iso_alloc_internal.h are scaled down so that a zone    *)
(* is small enough to enumerate; the relations between them are those of   *)
(* the allocator (several chunks per bitmap word, several words per byte   *)
(* count, default zones with more chunks than the cache holds, dedicated   *)
(* zones with fewer).  Every operator is written for arbitrary values of   *)
(* the constants.                                                          *)
(***************************************************************************)
EXTENDS Integers, Sequences, FiniteSets, TLC

(***************************************************************************)
(* Constants of iso_alloc_internal.h (scaled).                             *)
(***************************************************************************)
ALIGNMENT == 2
BITS_PER_BYTE == 2
BITS_PER_CHUNK == 2
BITS_PER_DWORD == 4
ZONE_USER_SIZE == 80
MAX_ZONES == 4
BIT_SLOT_CACHE_SZ == 3
CANARY_COUNT_DIV == 6
WASTED_SZ_MULTIPLIER == 2
ZONE_1024 == 4
MAX_DEFAULT_ZONE_SZ == 8
BAD_BIT_SLOT == -1
g_page_size == 16
default_zones == <<4, 8>>

\* sizeof(int32_t): the bytes of one bitmap word
SIZEOF_INT32 == BITS_PER_DWORD \div BITS_PER_BYTE

\* the width of size_t in bits (scaled), and the largest size_t
SIZE_T_BITS == 3

SIZE_MAX == (2 ^ SIZE_T_BITS) - 1

(***************************************************************************)
(* Bounds of the model.                                                    *)
(***************************************************************************)
\* how many _iso_alloc / _iso_free / stray writes one run makes
MaxAllocs == 3
MaxFrees == 2
MaxWrites == 1
\* _iso_free is tried on the chunks below this chunk number of every zone
MaxFreeChunk == 3
\* the largest value random() returns; RandomDraws are the values tried
MaxRandom == 9

RandomDraws == {0, MaxRandom}

\* sizes the program asks for: one a default zone serves and two above
\* every default class
AllocSizes == {3, 34, 36}

\* the runs with stray writes: fewer calls, a default and a dedicated zone
MaxCanaryAllocs == 3

CanarySizes == {3, 36}

\* the runs that fill the default zones: how many _iso_alloc calls (the
\* default zones hold ZONE_USER_SIZE / 4 + ZONE_USER_SIZE / 8 chunks, some of
\* them canaries) and the size asked for, a default class
MaxFillAllocs == 29

FillSizes == {default_zones[1]}

\* the runs of requests above the default classes: how many _iso_alloc calls
\* and the sizes asked for (3 chunks, 2 chunks, 1 chunk, 1 chunk)
MaxBigAllocs == 3

BigSizes == {22, 36, 44, ZONE_USER_SIZE}

\* the runs with zones the program creates: how many _iso_alloc and
\* iso_new_zone calls and how many _iso_free calls, the sizes asked for and
\* the chunk sizes of the zones created (all above the default classes: such
\* a zone has no canary chunks and its creation draws one value of random())
MaxZoneAllocs == 3

MaxZoneFrees == 1

ZoneAllocSizes == {3, 10, 36}

NewZoneSizes == {20, 36}

\* the runs that start before initialization: how many _iso_alloc calls
MaxInitAllocs == 2

\* the runs of two threads: how many _iso_alloc calls they make in all
MaxThreadAllocs == 2

ThreadSizes == {3, 36}

\* the runs of _iso_calloc: how many calls, and the values of nmemb and size
MaxCallocs == 2

CallocArgs == {0, 1, 2, 5, SIZE_MAX}

(***************************************************************************)
(* Macros of iso_alloc_internal.h.                                         *)
(***************************************************************************)
Pow2(k) == 2 ^ k

GET_BIT(n, k) == (n \div Pow2(k)) % 2

SET_BIT(n, k) == IF GET_BIT(n, k) = 1 THEN n ELSE n + Pow2(k)

UNSET_BIT(n, k) == IF GET_BIT(n, k) = 1 THEN n - Pow2(k) ELSE n

ROUND_UP_SZ(n) == ((n + ALIGNMENT - 1) \div ALIGNMENT) * ALIGNMENT

ALIGN_SZ_DOWN(n) == (n \div ALIGNMENT) * ALIGNMENT

GET_CHUNK_COUNT(zone) == ZONE_USER_SIZE \div zone.chunk_size

POINTER_FROM_BITSLOT(zone, bit_slot) ==
    zone.user_pages_start + (bit_slot \div BITS_PER_CHUNK) * zone.chunk_size

\* the number of 32-bit words of the bitmap: bitmap_size / sizeof(int32_t)
max_bitmap_idx(zone) == zone.bitmap_size \div SIZEOF_INT32

\* bm[i]; the bitmap mapping is page-rounded and zero filled past bitmap_size
BmWord(zone, i) == IF i \in DOMAIN zone.bm THEN zone.bm[i] ELSE 0

\* the user mapping of the zone at table index i, as mmap_rw_pages places it:
\* one guard page below, ZONE_USER_SIZE bytes, one guard page above
mmap_rw_pages(i) == g_page_size + i * (ZONE_USER_SIZE + 2 * g_page_size)

(***************************************************************************)
(* Canaries.  The first and the last CANARY_SIZE bytes of a chunk are kept *)
(* as "canary" (canary_secret XOR the chunk's address), "zero" (a fresh    *)
(* mapping, or the canary erased by _iso_alloc), "poison" or "data" (what  *)
(* the program wrote).                                                     *)
(***************************************************************************)
ChunkOf(zone, p) == (p - zone.user_pages_start) \div zone.chunk_size

\* a write_canary that writes the first CANARY_SIZE bytes only
write_canary_head(zone, p) ==
    [zone EXCEPT !.mem[ChunkOf(zone, p)].head = "canary"]

write_canary(zone, p) ==
    [zone EXCEPT !.mem[ChunkOf(zone, p)] = [head |-> "canary", tail |-> "canary"]]

\* a check_canary that never aborts
check_canary_skipped(zone, p) == TRUE

\* TRUE when check_canary returns, FALSE when it aborts
check_canary(zone, p) ==
    /\ zone.mem[ChunkOf(zone, p)].head = "canary"
    /\ zone.mem[ChunkOf(zone, p)].tail = "canary"

iso_clear_user_chunk(zone, p) ==
    [zone EXCEPT !.mem[ChunkOf(zone, p)] = [head |-> "poison", tail |-> "poison"]]

(***************************************************************************)
(* create_canary_chunks: rs[1..canary_count] are the values of random().   *)
(***************************************************************************)
\* a create_canary_chunks whose loop marks no chunk
canary_loop_none(zone, i, rs) == zone

RECURSIVE canary_loop(_, _, _)
canary_loop(zone, i, rs) ==
    LET canary_count == GET_CHUNK_COUNT(zone) \div CANARY_COUNT_DIV
        idx0 == ALIGN_SZ_DOWN(rs[i + 1] % max_bitmap_idx(zone))
        bm_idx == IF 0 > idx0 THEN 0 ELSE idx0
        bit_slot == bm_idx * BITS_PER_DWORD
        z1 == [zone EXCEPT !.bm[bm_idx] = SET_BIT(SET_BIT(@, 0), 1)]
    IN  IF i >= canary_count THEN zone
        ELSE canary_loop(write_canary(z1, POINTER_FROM_BITSLOT(z1, bit_slot)), i + 1, rs)

create_canary_chunks(zone, rs) ==
    IF zone.chunk_size > MAX_DEFAULT_ZONE_SZ THEN zone ELSE canary_loop(zone, 0, rs)

(***************************************************************************)
(* The free bit slot cache.                                                *)
(***************************************************************************)
\* the loops of fill_free_bit_slot_cache from word i, bit j: the free bit
\* slots in bitmap order, until the cache is full or the bitmap ends
RECURSIVE fill_loop(_, _, _, _)
fill_loop(zone, i, j, acc) ==
    IF i >= max_bitmap_idx(zone) \/ Len(acc) >= BIT_SLOT_CACHE_SZ THEN acc
    ELSE IF j >= BITS_PER_DWORD THEN fill_loop(zone, i + 1, 0, acc)
    ELSE fill_loop(zone, i, j + BITS_PER_CHUNK,
                   IF GET_BIT(zone.bm[i], j) = 0
                   THEN Append(acc, i * BITS_PER_DWORD + j) ELSE acc)

fill_free_bit_slot_cache(zone, r) ==
    LET idx0 == ALIGN_SZ_DOWN((r % max_bitmap_idx(zone)) \div 4)
        bm_idx == IF 0 > idx0 THEN 0 ELSE idx0
        found == fill_loop(zone, bm_idx, 0, <<>>)
    IN  [zone EXCEPT
           !.free_bit_slot_cache =
               [k \in 0..(BIT_SLOT_CACHE_SZ - 1) |->
                   IF k < Len(found) THEN found[k + 1] ELSE BAD_BIT_SLOT],
           !.free_bit_slot_cache_usable = 0,
           !.free_bit_slot_cache_index = Len(found)]

\* the zone after get_next_free_bit_slot; its return value is GetNextResult
get_next_free_bit_slot(zone) ==
    IF \/ 0 > zone.free_bit_slot_cache_usable
       \/ zone.free_bit_slot_cache_usable >= BIT_SLOT_CACHE_SZ
       \/ zone.free_bit_slot_cache_usable > zone.free_bit_slot_cache_index
    THEN zone
    ELSE [zone EXCEPT
            !.next_free_bit_slot = zone.free_bit_slot_cache[zone.free_bit_slot_cache_usable],
            !.free_bit_slot_cache[zone.free_bit_slot_cache_usable] = BAD_BIT_SLOT,
            !.free_bit_slot_cache_usable = @ + 1]

GetNextResult(zone) ==
    IF \/ 0 > zone.free_bit_slot_cache_usable
       \/ zone.free_bit_slot_cache_usable >= BIT_SLOT_CACHE_SZ
       \/ zone.free_bit_slot_cache_usable > zone.free_bit_slot_cache_index
    THEN BAD_BIT_SLOT
    ELSE zone.free_bit_slot_cache[zone.free_bit_slot_cache_usable]

\* TRUE when insert_free_bit_slot aborts: the slot is already in the cache
insert_aborts(zone, bit_slot) ==
    \E i \in zone.free_bit_slot_cache_usable..(BIT_SLOT_CACHE_SZ - 1) :
        zone.free_bit_slot_cache[i] = bit_slot

insert_free_bit_slot(zone, bit_slot) ==
    IF zone.free_bit_slot_cache_index >= BIT_SLOT_CACHE_SZ THEN zone
    ELSE [zone EXCEPT
            !.free_bit_slot_cache[zone.free_bit_slot_cache_index] = bit_slot,
            !.free_bit_slot_cache_index = @ + 1]

(***************************************************************************)
(* iso_new_zone: the zone put at table index idx.  rs are the values of    *)
(* random(): one per canary chunk, then the one of the cache fill.         *)
(***************************************************************************)
iso_new_zone(idx, size0, internal, rs) ==
    LET size == IF size0 % ALIGNMENT # 0 THEN ROUND_UP_SZ(size0) ELSE size0
        chunk_count == ZONE_USER_SIZE \div size
        bitmap_size == (chunk_count * BITS_PER_CHUNK) \div BITS_PER_BYTE
        canary_count == chunk_count \div CANARY_COUNT_DIV
        new_zone == [index |-> idx,
                     internally_managed |-> internal,
                     is_full |-> FALSE,
                     chunk_size |-> size,
                     bitmap_size |-> bitmap_size,
                     user_pages_start |-> mmap_rw_pages(idx),
                     user_pages_end |-> mmap_rw_pages(idx) + ZONE_USER_SIZE,
                     bm |-> [i \in 0..((bitmap_size \div SIZEOF_INT32) - 1) |-> 0],
                     mem |-> [c \in 0..(chunk_count - 1) |->
                                 [head |-> "zero", tail |-> "zero"]],
                     free_bit_slot_cache |-> [k \in 0..(BIT_SLOT_CACHE_SZ - 1) |-> 0],
                     free_bit_slot_cache_index |-> 0,
                     free_bit_slot_cache_usable |-> 0,
                     next_free_bit_slot |-> 0]
        fill_r == rs[(IF size > MAX_DEFAULT_ZONE_SZ THEN 0 ELSE canary_count) + 1]
    IN  get_next_free_bit_slot(
            fill_free_bit_slot_cache(create_canary_chunks(new_zone, rs), fill_r))

(***************************************************************************)
(* The two bitmap scans.                                                   *)
(***************************************************************************)
iso_scan_zone_free_slot(zone) ==
    LET hits == {i \in 0..(max_bitmap_idx(zone) - 1) : zone.bm[i] = 0}
    IN  IF hits = {} THEN BAD_BIT_SLOT
        ELSE (CHOOSE i \in hits : \A k \in hits : i <= k) * BITS_PER_DWORD

iso_scan_zone_free_slot_slow(zone) ==
    LET slots == {i * BITS_PER_DWORD + j : i \in 0..(max_bitmap_idx(zone) - 1),
                                           j \in 0..(BITS_PER_DWORD - 1)}
        hits == {s \in slots : /\ (s % BITS_PER_DWORD) % BITS_PER_CHUNK = 0
                               /\ GET_BIT(zone.bm[s \div BITS_PER_DWORD],
                                          s % BITS_PER_DWORD) = 0}
    IN  IF hits = {} THEN BAD_BIT_SLOT
        ELSE CHOOSE s \in hits : \A k \in hits : s <= k

(***************************************************************************)
(* is_zone_usable: [zone |-> the zone as the call leaves it, ok |-> FALSE  *)
(* when it returns NULL].  r is the value of random() if the cache is      *)
(* refilled.                                                               *)
(***************************************************************************)
\* an is_zone_usable with no waste check (and the slow scan alone)
is_zone_usable_any(zone, size, r) ==
    IF zone.next_free_bit_slot # BAD_BIT_SLOT THEN [zone |-> zone, ok |-> TRUE]
    ELSE
      LET z1 == IF zone.free_bit_slot_cache_usable = zone.free_bit_slot_cache_index
                THEN fill_free_bit_slot_cache(zone, r) ELSE zone
          bit_slot == GetNextResult(z1)
          z2 == get_next_free_bit_slot(z1)
          slow == iso_scan_zone_free_slot_slow(z2)
      IN  IF bit_slot # BAD_BIT_SLOT THEN [zone |-> z2, ok |-> TRUE]
          ELSE IF slow = BAD_BIT_SLOT
          THEN [zone |-> [z2 EXCEPT !.is_full = TRUE], ok |-> FALSE]
          ELSE [zone |-> [z2 EXCEPT !.next_free_bit_slot = slow], ok |-> TRUE]

is_zone_usable(zone, size, r) ==
    IF zone.next_free_bit_slot # BAD_BIT_SLOT THEN [zone |-> zone, ok |-> TRUE]
    ELSE IF zone.chunk_size >= size * WASTED_SZ_MULTIPLIER /\ size > ZONE_1024
    THEN [zone |-> zone, ok |-> FALSE]
    ELSE
      LET z1 == IF zone.free_bit_slot_cache_usable = zone.free_bit_slot_cache_index
                THEN fill_free_bit_slot_cache(zone, r) ELSE zone
          bit_slot == GetNextResult(z1)
          z2 == get_next_free_bit_slot(z1)
          fast == iso_scan_zone_free_slot(z2)
          slow == iso_scan_zone_free_slot_slow(z2)
      IN  IF bit_slot # BAD_BIT_SLOT THEN [zone |-> z2, ok |-> TRUE]
          ELSE IF fast = BAD_BIT_SLOT
          THEN IF slow = BAD_BIT_SLOT
               THEN [zone |-> [z2 EXCEPT !.is_full = TRUE], ok |-> FALSE]
               ELSE [zone |-> [z2 EXCEPT !.next_free_bit_slot = slow], ok |-> TRUE]
          ELSE [zone |-> [z2 EXCEPT !.next_free_bit_slot = fast], ok |-> TRUE]

(***************************************************************************)
(* iso_find_zone_fit over the zone table zs (zs[i + 1] is _root->zones[i]):*)
(* [zones |-> the table as the search leaves it, found |-> the index of    *)
(* the zone returned, or -1 for NULL].                                     *)
(***************************************************************************)
\* a search that returns the first zone whatever its chunk size
find_zone_fit_first(zs, i, size, r) == [zones |-> zs, found |-> 0]

\* a search that does not skip the zones that are not internally managed
RECURSIVE find_zone_fit_shared(_, _, _, _)
find_zone_fit_shared(zs, i, size, r) ==
    IF i >= Len(zs) THEN [zones |-> zs, found |-> -1]
    ELSE LET zone == zs[i + 1]
             u == is_zone_usable(zone, size, r)
             zs1 == [zs EXCEPT ![i + 1] = u.zone]
         IN  IF zone.chunk_size < size \/ zone.is_full = TRUE
             THEN find_zone_fit_shared(zs, i + 1, size, r)
             ELSE IF u.ok THEN [zones |-> zs1, found |-> i]
                  ELSE find_zone_fit_shared(zs1, i + 1, size, r)

RECURSIVE find_zone_fit_loop(_, _, _, _)
find_zone_fit_loop(zs, i, size, r) ==
    IF i >= Len(zs) THEN [zones |-> zs, found |-> -1]
    ELSE LET zone == zs[i + 1]
             u == is_zone_usable(zone, size, r)
             zs1 == [zs EXCEPT ![i + 1] = u.zone]
         IN  IF \/ zone.chunk_size < size
                \/ zone.internally_managed = FALSE
                \/ zone.is_full = TRUE
             THEN find_zone_fit_loop(zs, i + 1, size, r)
             ELSE IF u.ok THEN [zones |-> zs1, found |-> i]
                  ELSE find_zone_fit_loop(zs1, i + 1, size, r)

iso_find_zone_fit(zs, size, r) == find_zone_fit_loop(zs, 0, size, r)

(***************************************************************************)
(* _iso_alloc.  The result is [zones, ret, abort]: ret is the pointer      *)
(* returned (0 is NULL), abort the LOG_AND_ABORT reached ("" when none).   *)
(***************************************************************************)
\* the size of the zone _iso_alloc creates when no zone fits: the first
\* default size the request is below, else the request itself
new_zone_size(size) ==
    LET above == {i \in 1..Len(default_zones) : size < default_zones[i]}
    IN  IF above = {} THEN size
        ELSE default_zones[CHOOSE i \in above : \A k \in above : i <= k]

\* max_bitmap_idx of a zone iso_new_zone would create for size: when it is 0
\* create_canary_chunks and fill_free_bit_slot_cache divide by zero
new_zone_words(size) ==
    (((ZONE_USER_SIZE \div ROUND_UP_SZ(size)) * BITS_PER_CHUNK) \div BITS_PER_BYTE)
        \div SIZEOF_INT32

\* random() % max_bitmap_idx with max_bitmap_idx 0 (lines 33 and 103) is
\* undefined: the division traps, or it yields some value.  With any value
\* the loop of fill_free_bit_slot_cache ends on its first test
\* (bm_idx >= max_bitmap_idx), the cache holds BAD_BIT_SLOT only and
\* get_next_free_bit_slot primes BAD_BIT_SLOT.  The outcomes for a request
\* of size bytes: "none" when the zone created for it has a bitmap word.
ModZero(size) ==
    IF new_zone_words(new_zone_size(size)) = 0 THEN {"trap", "value"} ELSE {"none"}

\* a hand-out that leaves the in-use bit of the chunk clear
take_bit_slot_unmarked(zs, zi, free_bit_slot) ==
    [zones |-> [zs EXCEPT ![zi + 1].next_free_bit_slot = BAD_BIT_SLOT],
     ret |-> POINTER_FROM_BITSLOT(zs[zi + 1], free_bit_slot),
     abort |-> ""]

\* lines 592-635: hand out the chunk of free_bit_slot of zone zs[zi + 1]
take_bit_slot(zs, zi, free_bit_slot) ==
    LET zone == [zs[zi + 1] EXCEPT !.next_free_bit_slot = BAD_BIT_SLOT]
        dwords_to_bit_slot == free_bit_slot \div BITS_PER_DWORD
        which_bit == free_bit_slot % BITS_PER_DWORD
        p == POINTER_FROM_BITSLOT(zone, free_bit_slot)
        b == BmWord(zone, dwords_to_bit_slot)
        was_used == GET_BIT(b, which_bit + 1) = 1
        z1 == IF was_used THEN [zone EXCEPT !.mem[ChunkOf(zone, p)].head = "zero"]
              ELSE zone
        z2 == [z1 EXCEPT !.bm[dwords_to_bit_slot] =
                             UNSET_BIT(SET_BIT(b, which_bit), which_bit + 1)]
    IN  IF p > zone.user_pages_end
        THEN [zones |-> zs, ret |-> 0, abort |-> "address outside zones user pages"]
        ELSE IF GET_BIT(b, which_bit) # 0
        THEN [zones |-> zs, ret |-> 0, abort |-> "Cannot return allocated chunk"]
        ELSE IF was_used /\ ~check_canary(zone, p)
        THEN [zones |-> zs, ret |-> 0, abort |-> "Canary has been corrupted"]
        ELSE [zones |-> [zs EXCEPT ![zi + 1] = z2], ret |-> p, abort |-> ""]

\* lines 594-620 for free_bit_slot of zone zs[zi + 1]: [zones |-> the table
\* once the slot is unprimed and the canary of a reused chunk erased,
\* b |-> the bitmap word read, abort |-> the LOG_AND_ABORT reached]
take_read(zs, zi, free_bit_slot) ==
    LET zone == [zs[zi + 1] EXCEPT !.next_free_bit_slot = BAD_BIT_SLOT]
        which_bit == free_bit_slot % BITS_PER_DWORD
        p == POINTER_FROM_BITSLOT(zone, free_bit_slot)
        b == BmWord(zone, free_bit_slot \div BITS_PER_DWORD)
        was_used == GET_BIT(b, which_bit + 1) = 1
        z1 == IF was_used THEN [zone EXCEPT !.mem[ChunkOf(zone, p)].head = "zero"]
              ELSE zone
    IN  IF p > zone.user_pages_end
        THEN [zones |-> zs, b |-> b, abort |-> "address outside zones user pages"]
        ELSE IF GET_BIT(b, which_bit) # 0
        THEN [zones |-> zs, b |-> b, abort |-> "Cannot return allocated chunk"]
        ELSE IF was_used /\ ~check_canary(zone, p)
        THEN [zones |-> zs, b |-> b, abort |-> "Canary has been corrupted"]
        ELSE [zones |-> [zs EXCEPT ![zi + 1] = z1], b |-> b, abort |-> ""]

\* lines 622-631: the bits of the slot set in the word b read earlier, and
\* that word stored back
take_write(zs, zi, free_bit_slot, b) ==
    [zs EXCEPT ![zi + 1].bm[free_bit_slot \div BITS_PER_DWORD] =
        UNSET_BIT(SET_BIT(b, free_bit_slot % BITS_PER_DWORD),
                  (free_bit_slot % BITS_PER_DWORD) + 1)]

\* lines 533-590: the zone and the bit slot _iso_alloc settles on.
\* [zones |-> the table as the search or the new zone leaves it, zi |-> the
\* table index of the zone (-1 when _iso_alloc returns NULL),
\* free_bit_slot, abort].  hint is the table index of the zone passed,
\* -1 for NULL
iso_alloc_find(zs, hint, size, rs, ub) ==
    LET fit == IF hint = -1 THEN iso_find_zone_fit(zs, size, rs[1])
               ELSE [zones |-> zs, found |-> hint]
        nsize == new_zone_size(size)
        created == iso_new_zone(Len(zs), nsize, TRUE, rs)
        u == is_zone_usable(fit.zones[fit.found + 1], size, rs[1])
        zs2 == [fit.zones EXCEPT ![fit.found + 1] = u.zone]
        none == [zones |-> fit.zones, zi |-> -1, free_bit_slot |-> BAD_BIT_SLOT, abort |-> ""]
    IN  IF fit.found = -1
        THEN IF Len(zs) >= MAX_ZONES
             THEN [none EXCEPT !.abort = "Cannot allocate additional zones"]
             ELSE IF new_zone_words(nsize) = 0
             THEN IF ub = "trap"
                  THEN [none EXCEPT !.abort = "SIGFPE in random() % max_bitmap_idx"]
                  ELSE [none EXCEPT !.abort = "Allocated a new zone with no free bit slots"]
             ELSE IF created.next_free_bit_slot = BAD_BIT_SLOT
             THEN [none EXCEPT !.abort = "Allocated a new zone with no free bit slots"]
             ELSE [zones |-> Append(fit.zones, created), zi |-> Len(zs),
                   free_bit_slot |-> created.next_free_bit_slot, abort |-> ""]
        ELSE IF ~u.ok THEN [none EXCEPT !.zones = zs2]
        ELSE IF u.zone.next_free_bit_slot = BAD_BIT_SLOT THEN [none EXCEPT !.zones = zs2]
        ELSE [zones |-> zs2, zi |-> fit.found,
              free_bit_slot |-> u.zone.next_free_bit_slot, abort |-> ""]

\* lines 592-635 on what lines 533-590 settled on
alloc_take(f) ==
    IF f.abort # "" \/ f.zi = -1 THEN [zones |-> f.zones, ret |-> 0, abort |-> f.abort]
    ELSE take_bit_slot(f.zones, f.zi, f.free_bit_slot)

\* [zones, ret, abort] of _iso_alloc(hint, size)
iso_alloc_impl(zs, hint, size, rs, ub) ==
    alloc_take(iso_alloc_find(zs, hint, size, rs, ub))

(***************************************************************************)
(* _iso_calloc.                                                            *)
(***************************************************************************)
\* line 528: memset(p, 0x0, n) on what _iso_alloc returned with r.  A chunk
\* taken for reuse still holds the canary in its last bytes, which the
\* memset reaches when n is the whole chunk
calloc_memset(r, n) ==
    IF r.abort # "" THEN r
    ELSE IF r.ret = 0
    THEN IF n = 0 THEN r ELSE [r EXCEPT !.abort = "memset of NULL"]
    ELSE LET zi == CHOOSE i \in 1..Len(r.zones) :
                      /\ r.zones[i].user_pages_start <= r.ret
                      /\ r.zones[i].user_pages_end > r.ret
             zone == r.zones[zi]
         IN  IF n < zone.chunk_size THEN r
             ELSE [r EXCEPT !.zones[zi].mem[ChunkOf(zone, r.ret)].tail = "zero"]

\* nmemb * size as the size_t multiplication computes it
calloc_product(nmemb, size) == (nmemb * size) % (2 ^ SIZE_T_BITS)

\* [zones, ret, abort] of _iso_calloc(nmemb, size)
iso_calloc_impl(zs, nmemb, size, rs, ub) ==
    IF nmemb > calloc_product(nmemb, size)
    THEN [zones |-> zs, ret |-> 0, abort |-> "Call to calloc() will overflow"]
    ELSE calloc_memset(iso_alloc_impl(zs, -1, calloc_product(nmemb, size), rs, ub),
                       calloc_product(nmemb, size))

(***************************************************************************)
(* _iso_free.                                                              *)
(***************************************************************************)
\* the table index of the first zone whose user pages hold p; -1 when the
\* loop reaches i == zones_used and aborts
iso_find_zone_range(zs, p) ==
    LET hits == {i \in 0..(Len(zs) - 1) :
                    zs[i + 1].user_pages_start <= p /\ zs[i + 1].user_pages_end > p}
    IN  IF hits = {} THEN -1 ELSE CHOOSE i \in hits : \A k \in hits : i <= k

\* lines 768-778: TRUE when the canary check of the chunk after p aborts
over_check_aborts(zone, p, chunk_number) ==
    LET bit_position_over == (chunk_number + 1) * BITS_PER_CHUNK
        b == BmWord(zone, bit_position_over \div BITS_PER_DWORD)
        which_bit == bit_position_over % BITS_PER_DWORD
    IN  /\ (p + zone.chunk_size) < zone.user_pages_end
        /\ GET_BIT(b, which_bit + 1) = 1
        /\ ~check_canary(zone, POINTER_FROM_BITSLOT(zone, bit_position_over))

\* lines 780-790: TRUE when the canary check of the chunk before p aborts
under_check_aborts(zone, p, chunk_number) ==
    LET bit_position_under == (chunk_number - 1) * BITS_PER_CHUNK
        b == BmWord(zone, bit_position_under \div BITS_PER_DWORD)
        which_bit == bit_position_under % BITS_PER_DWORD
    IN  /\ (p - zone.chunk_size) > zone.user_pages_start
        /\ GET_BIT(b, which_bit + 1) = 1
        /\ ~check_canary(zone, POINTER_FROM_BITSLOT(zone, bit_position_under))

\* a free that leaves the in-use bit set
free_bits_kept(b, which_bit, permanent) == SET_BIT(b, which_bit + 1)

\* a free that clears the in-use bit even when permanent
free_bits_cleared(b, which_bit, permanent) ==
    UNSET_BIT(SET_BIT(b, which_bit + 1), which_bit)

\* a free that stores the bits of its chunk alone in the bitmap word
free_bits_alone(b, which_bit, permanent) ==
    IF permanent = FALSE THEN Pow2(which_bit + 1)
    ELSE Pow2(which_bit + 1) + Pow2(which_bit)

\* lines 747-757: the bitmap word of the chunk after the free
free_bits(b, which_bit, permanent) ==
    IF permanent = FALSE THEN UNSET_BIT(SET_BIT(b, which_bit + 1), which_bit)
    ELSE SET_BIT(b, which_bit + 1)

\* [zone |-> the zone after the free, abort |-> the LOG_AND_ABORT reached]
iso_free_chunk_from_zone(zone, p, permanent) ==
    LET chunk_offset == p - zone.user_pages_start
        chunk_number == chunk_offset \div zone.chunk_size
        bit_slot == chunk_number * BITS_PER_CHUNK
        dwords_to_bit_slot == bit_slot \div BITS_PER_DWORD
        which_bit == bit_slot % BITS_PER_DWORD
        b == BmWord(zone, dwords_to_bit_slot)
        z1 == [zone EXCEPT !.bm[dwords_to_bit_slot] = free_bits(b, which_bit, permanent)]
        z2 == write_canary(iso_clear_user_chunk(z1, p), p)
        z3 == [insert_free_bit_slot(z2, bit_slot) EXCEPT !.is_full = FALSE]
    IN  IF p % ALIGNMENT # 0
        THEN [zone |-> zone, abort |-> "Chunk is not aligned"]
        ELSE IF chunk_offset % zone.chunk_size # 0
        THEN [zone |-> zone, abort |-> "Chunk is not a multiple of chunk size"]
        ELSE IF dwords_to_bit_slot >= zone.bitmap_size
        THEN [zone |-> zone, abort |-> "Cannot calculate this chunks location"]
        ELSE IF GET_BIT(b, which_bit) = 0
        THEN [zone |-> zone, abort |-> "Double free"]
        ELSE IF over_check_aborts(z2, p, chunk_number)
                  \/ under_check_aborts(z2, p, chunk_number)
        THEN [zone |-> zone, abort |-> "Canary has been corrupted"]
        ELSE IF insert_aborts(z2, bit_slot)
        THEN [zone |-> zone, abort |-> "already contains bit slot in cache"]
        ELSE [zone |-> z3, abort |-> ""]

\* [zones |-> the table after _iso_free(p, permanent), abort |-> ...]
iso_free_impl(zs, p, permanent) ==
    LET zi == iso_find_zone_range(zs, p)
        f == iso_free_chunk_from_zone(zs[zi + 1], p, permanent)
    IN  IF p = 0 THEN [zones |-> zs, abort |-> ""]
        ELSE IF zi = -1 THEN [zones |-> zs, abort |-> "pointer not allocated by iso_alloc"]
        ELSE IF f.abort # "" THEN [zones |-> zs, abort |-> f.abort]
        ELSE [zones |-> [zs EXCEPT ![zi + 1] = f.zone], abort |-> ""]

(***************************************************************************)
(* verify_zone / verify_all_zones: TRUE when a check_canary aborts.        *)
(***************************************************************************)
\* the bit slot whose chunk verify_zone checks for word i, bit pair j
verify_bit_slot(i, j) == i * BITS_PER_DWORD

verify_zone_aborts(zone) ==
    \E i \in 0..(max_bitmap_idx(zone) - 1) :
       \E j \in {k \in 0..(BITS_PER_DWORD - 1) : k % BITS_PER_CHUNK = 0} :
          /\ GET_BIT(zone.bm[i], j + 1) = 1
          /\ ~check_canary(zone, POINTER_FROM_BITSLOT(zone, verify_bit_slot(i, j)))

verify_all_zones_aborts(zs) ==
    \E i \in 0..(Len(zs) - 1) : verify_zone_aborts(zs[i + 1])

(***************************************************************************)
(* The state.                                                              *)
(*   zones    _root->zones[0 .. zones_used - 1], with each zone's bitmap,  *)
(*            cache and the canary words of its chunks                     *)
(*   aborted  the LOG_AND_ABORT that ended the process, "" while it runs   *)
(*   lastOp   the last call made and what it returned                      *)
(*   live     the pointers returned by _iso_alloc and not freed since,     *)
(*            each with the size it was asked with                         *)
(*   freed    pointers returned, then freed (not permanently) and not      *)
(*            returned since                                               *)
(*   perm     pointers freed permanently and not freed again since         *)
(*   asked    the sizes above every default class asked for so far         *)
(*   chase    the pointer p last freed and its size n, while every call    *)
(*            since that free was _iso_alloc(NULL, n) and none returned p  *)
(*   s2       how far the run has followed p = alloc(n); free(p); write    *)
(*            to p; alloc(n) from the fresh root (-1: it has left it)      *)
(*   budget   the calls the run may still make                             *)
(*   root     installed: _root != NULL; initialized: iso_alloc_initialized *)
(*   threads  for each thread inside _iso_alloc, where it is and its       *)
(*            local variables                                              *)
(***************************************************************************)
VARIABLES zones, aborted, lastOp, live, freed, perm, asked, chase, s2, budget,
          root, threads, prng

vars == <<zones, aborted, lastOp, live, freed, perm, asked, chase, s2, budget,
          root, threads, prng>>

\* the generator of random() when the process starts: srandom() has not been
\* called, and no value has been drawn
PrngFresh == [seeded |-> FALSE, unseeded |-> 0]

\* the calls iso_new_zone(size, internal) makes to the generator, in order:
\* canary_secret and pointer_mask (lines 374-375), one value per canary
\* chunk (line 33), one for the cache fill (line 103)
new_zone_prng_calls(size) ==
    [k \in 1..(4 + (IF ROUND_UP_SZ(size) > MAX_DEFAULT_ZONE_SZ THEN 0
                    ELSE (ZONE_USER_SIZE \div ROUND_UP_SZ(size)) \div CANARY_COUNT_DIV)
                 + 1) |-> "random"]

\* the calls of the loop of lines 240-244, from default_zones[i] on
RECURSIVE default_zones_prng_calls(_)
default_zones_prng_calls(i) ==
    IF i > Len(default_zones) THEN <<>>
    ELSE new_zone_prng_calls(default_zones[i]) \o default_zones_prng_calls(i + 1)

\* the calls iso_alloc_initialize makes to the generator, in order: the
\* default zones (lines 240-244), srandom (line 248), zone_handle_mask
\* (line 250)
initialize_prng_calls ==
    default_zones_prng_calls(1) \o <<"srandom">> \o <<"random", "random">>

\* the generator after the calls, made in order from the generator st
RECURSIVE prng_run(_, _)
prng_run(calls, st) ==
    IF calls = <<>> THEN st
    ELSE prng_run(Tail(calls),
                  IF Head(calls) = "srandom" THEN [st EXCEPT !.seeded = TRUE]
                  ELSE IF st.seeded THEN st
                  ELSE [st EXCEPT !.unseeded = @ + 1])

\* the generator after iso_alloc_initialize() is called with root rt
initialize_prng(rt, st) ==
    IF rt.installed THEN st ELSE prng_run(initialize_prng_calls, st)

\* how many threads call into the allocator
NumThreads == 2

Threads == 1..NumThreads

\* a thread outside the allocator
Idle == [pc |-> "idle", size |-> 0, zi |-> -1, free_bit_slot |-> BAD_BIT_SLOT, b |-> 0]

\* the root once iso_alloc_initialize has run
Installed == [installed |-> TRUE, initialized |-> TRUE]

NoChase == [p |-> 0, n |-> 0]

\* the values of random() one call consumes: one per canary chunk of a new
\* zone and one for a cache fill
TapeLen == (ZONE_USER_SIZE \div default_zones[1]) \div CANARY_COUNT_DIV + 1

Tapes == [1..TapeLen -> RandomDraws]

NoOp == [op |-> "init", size |-> 0, nmemb |-> 0, p |-> 0, permanent |-> FALSE, hint |-> -1, ret |-> 0]

\* iso_alloc_initialize (lines 227-252): one zone per entry of default_zones
iso_alloc_initialize(ts) ==
    [i \in 1..Len(default_zones) |-> iso_new_zone(i - 1, default_zones[i], TRUE, ts[i])]

\* the state iso_alloc_initialize leaves, for a run that makes at most
\* b.alloc, b.free and b.write calls, with sizes b.sizes and b.permanent
\* the values of _iso_free's flag
InitWith(b) ==
    /\ \E ts \in [1..Len(default_zones) -> Tapes] : zones = iso_alloc_initialize(ts)
    /\ aborted = ""
    /\ lastOp = NoOp
    /\ live = <<>>
    /\ freed = {}
    /\ perm = {}
    /\ asked = {}
    /\ chase = NoChase
    /\ s2 = [stage |-> 0, p |-> 0, n |-> 0]
    /\ budget = b
    /\ root = Installed
    /\ threads = [t \in Threads |-> Idle]
    /\ prng = initialize_prng([installed |-> FALSE, initialized |-> FALSE], PrngFresh)

\* the state before the constructor has run: _root is NULL,
\* iso_alloc_initialized is false and there is no zone
InitBare ==
    /\ zones = <<>>
    /\ aborted = ""
    /\ lastOp = NoOp
    /\ live = <<>>
    /\ freed = {}
    /\ perm = {}
    /\ asked = {}
    /\ chase = NoChase
    /\ s2 = [stage |-> 0, p |-> 0, n |-> 0]
    /\ budget = [alloc |-> MaxInitAllocs, free |-> 0, write |-> 0,
                 sizes |-> AllocSizes, permanent |-> {FALSE}]
    /\ root = [installed |-> FALSE, initialized |-> FALSE]
    /\ threads = [t \in Threads |-> Idle]
    /\ prng = PrngFresh

Init ==
    InitWith([alloc |-> MaxAllocs, free |-> MaxFrees, write |-> 0,
              sizes |-> AllocSizes, permanent |-> BOOLEAN])

(***************************************************************************)
(* Inputs.                                                                 *)
(***************************************************************************)
\* (bit1, bit0) of chunk c: <<was used, in use>>
ChunkState(zone, c) ==
    LET bit_slot == c * BITS_PER_CHUNK
        b == BmWord(zone, bit_slot \div BITS_PER_DWORD)
    IN  <<GET_BIT(b, (bit_slot % BITS_PER_DWORD) + 1), GET_BIT(b, bit_slot % BITS_PER_DWORD)>>

\* the chunks of a zone the program frees or writes: the first ones and
\* every chunk that was ever used
CandChunks(zone) ==
    {c \in 0..(GET_CHUNK_COUNT(zone) - 1) :
        c < MaxFreeChunk \/ ChunkState(zone, c) # <<0, 0>>}

\* the chunks the program writes: those in use, freed or set aside as canaries
WriteChunks(zone) ==
    {c \in 0..(GET_CHUNK_COUNT(zone) - 1) : ChunkState(zone, c) # <<0, 0>>}

ChunkAddr(zone, c) == zone.user_pages_start + c * zone.chunk_size

FreeCandidates ==
    UNION {{ChunkAddr(zones[i], c) : c \in CandChunks(zones[i])} : i \in 1..Len(zones)}
      \cup {p + 1 : p \in DOMAIN live} \cup {p + ALIGNMENT : p \in DOMAIN live}
      \cup {zones[Len(zones)].user_pages_end}

(***************************************************************************)
(* Actions.                                                                *)
(***************************************************************************)
\* iso_alloc_initialize() without the test of _root
initialize_call_again(rt, zs, ts) ==
    iso_alloc_initialize(ts)

\* the zone table after iso_alloc_initialize() is called with root rt and
\* table zs: nothing is done unless _root is NULL (lines 228-231)
initialize_call(rt, zs, ts) ==
    IF rt.installed THEN zs ELSE iso_alloc_initialize(ts)

\* lines 533-535: _iso_alloc initializes when iso_alloc_initialized is false
lazy_zones(ts) ==
    IF root.initialized = FALSE THEN initialize_call(root, zones, ts) ELSE zones

\* the generator after lines 533-535
lazy_prng ==
    IF root.initialized = FALSE THEN initialize_prng(root, prng) ELSE prng

\* the values of random() a lazy initialization consumes: none when the
\* allocator is initialized
LazyTapes ==
    IF root.initialized THEN {<<>>} ELSE [1..Len(default_zones) -> Tapes]

S2Off == [stage |-> -1, p |-> 0, n |-> 0]

MaxDefault == default_zones[Len(default_zones)]

\* the state after _iso_alloc(NULL, size) came back with r
AllocReturns(size, r) ==
    /\ zones' = IF r.abort = "" THEN r.zones ELSE zones
    /\ aborted' = r.abort
    /\ lastOp' = [op |-> "alloc", size |-> size, nmemb |-> 0, p |-> 0,
                  permanent |-> FALSE, hint |-> -1, ret |-> r.ret]
    /\ live' = IF r.ret # 0
               THEN [q \in DOMAIN live \cup {r.ret} |->
                        IF q = r.ret THEN size ELSE live[q]]
               ELSE live
    /\ freed' = freed \ {r.ret}
    /\ asked' = IF size > MaxDefault THEN asked \cup {size} ELSE asked
    /\ chase' = IF chase.p # 0 /\ size = chase.n /\ r.ret # chase.p
                THEN chase ELSE NoChase
    /\ s2' = IF s2.stage = 0 /\ r.ret # 0
             THEN [stage |-> 1, p |-> r.ret, n |-> size]
             ELSE IF s2.stage = 3 /\ size = s2.n
             THEN [s2 EXCEPT !.stage = 4]
             ELSE S2Off

\* p = _iso_alloc(NULL, size)
Alloc ==
    /\ aborted = ""
    /\ budget.alloc > 0
    /\ \E size \in budget.sizes, rs \in Tapes, ts \in LazyTapes :
         \E ub \in ModZero(size) :
            AllocReturns(size, iso_alloc_impl(lazy_zones(ts), -1, size, rs, ub))
    /\ root' = Installed
    /\ perm' = perm
    /\ threads' = threads
    /\ budget' = [budget EXCEPT !.alloc = @ - 1]
    /\ prng' = lazy_prng

\* the state after _iso_calloc(nmemb, size) came back with r
CallocReturns(nmemb, size, r) ==
    /\ zones' = IF r.abort = "" THEN r.zones ELSE zones
    /\ aborted' = r.abort
    /\ lastOp' = [op |-> "calloc", size |-> size, nmemb |-> nmemb, p |-> 0,
                  permanent |-> FALSE, hint |-> -1, ret |-> r.ret]
    /\ live' = IF r.ret # 0
               THEN [q \in DOMAIN live \cup {r.ret} |->
                        IF q = r.ret THEN calloc_product(nmemb, size) ELSE live[q]]
               ELSE live
    /\ freed' = freed \ {r.ret}
    /\ asked' = IF calloc_product(nmemb, size) > MaxDefault
                THEN asked \cup {calloc_product(nmemb, size)} ELSE asked
    /\ chase' = NoChase
    /\ s2' = S2Off

\* p = _iso_calloc(nmemb, size)
Calloc ==
    /\ aborted = ""
    /\ budget.alloc > 0
    /\ \E nmemb \in CallocArgs, size \in CallocArgs, rs \in Tapes, ts \in LazyTapes :
         \E ub \in ModZero(calloc_product(nmemb, size)) :
            CallocReturns(nmemb, size,
                          iso_calloc_impl(lazy_zones(ts), nmemb, size, rs, ub))
    /\ root' = Installed
    /\ perm' = perm
    /\ threads' = threads
    /\ budget' = [budget EXCEPT !.alloc = @ - 1]
    /\ prng' = lazy_prng

\* the state after _iso_alloc(&_root->zones[hint], size) came back with r
HintReturns(hint, size, r) ==
    /\ zones' = IF r.abort = "" THEN r.zones ELSE zones
    /\ aborted' = r.abort
    /\ lastOp' = [op |-> "alloc", size |-> size, nmemb |-> 0, p |-> 0,
                  permanent |-> FALSE, hint |-> hint, ret |-> r.ret]
    /\ live' = IF r.ret # 0
               THEN [q \in DOMAIN live \cup {r.ret} |->
                        IF q = r.ret THEN size ELSE live[q]]
               ELSE live
    /\ freed' = freed \ {r.ret}

\* p = _iso_alloc(zone, size) with zone one of the zones of the root
AllocHint ==
    /\ aborted = ""
    /\ budget.alloc > 0
    /\ \E hint \in 0..(Len(zones) - 1), size \in budget.sizes, rs \in Tapes :
         HintReturns(hint, size, iso_alloc_impl(zones, hint, size, rs, "none"))
    /\ chase' = NoChase
    /\ s2' = S2Off
    /\ budget' = [budget EXCEPT !.alloc = @ - 1]
    /\ UNCHANGED <<perm, asked, root, threads>>
    /\ prng' = prng

\* the zone table after iso_new_zone(size, internal) on table zs
new_zone_call(zs, size, internal, rs) ==
    Append(zs, iso_new_zone(Len(zs), size, internal, rs))

\* zone = iso_new_zone(size, internal), called by the program
NewZone ==
    /\ aborted = ""
    /\ budget.alloc > 0
    /\ \E size \in NewZoneSizes, internal \in BOOLEAN, r \in RandomDraws :
         /\ zones' = IF Len(zones) >= MAX_ZONES THEN zones
                      ELSE new_zone_call(zones, size, internal, [k \in 1..TapeLen |-> r])
         /\ lastOp' = [op |-> "new_zone", size |-> size, nmemb |-> 0, p |-> 0,
                       permanent |-> internal, hint |-> -1,
                       ret |-> IF Len(zones) >= MAX_ZONES THEN 0 ELSE Len(zones)]
    /\ aborted' = IF Len(zones) >= MAX_ZONES THEN "Cannot allocate additional zones" ELSE ""
    /\ chase' = NoChase
    /\ s2' = S2Off
    /\ budget' = [budget EXCEPT !.alloc = @ - 1]
    /\ UNCHANGED <<live, freed, perm, asked, root, threads>>
    /\ prng' = prng

\* what an _iso_alloc call that came back with ret leaves in lastOp
AllocOp(size, ret) ==
    [op |-> "alloc", size |-> size, nmemb |-> 0, p |-> 0, permanent |-> FALSE, hint |-> -1, ret |-> ret]

\* thread t has run lines 533-590 of _iso_alloc(NULL, size) with outcome f
FindReturns(t, size, f) ==
    /\ zones' = IF f.abort = "" THEN f.zones ELSE zones
    /\ aborted' = f.abort
    /\ threads' = [threads EXCEPT ![t] =
                      IF f.abort # "" \/ f.zi = -1 THEN Idle
                      ELSE [pc |-> "found", size |-> size, zi |-> f.zi,
                            free_bit_slot |-> f.free_bit_slot, b |-> 0]]
    /\ lastOp' = IF f.abort # "" \/ f.zi = -1 THEN AllocOp(size, 0) ELSE lastOp

\* thread t enters _iso_alloc(NULL, size) and runs up to line 590: it holds
\* the zone and the bit slot it will take.  No lock is taken.
AllocFind(t) ==
    /\ aborted = ""
    /\ budget.alloc > 0
    /\ threads[t].pc = "idle"
    /\ \E size \in budget.sizes, rs \in Tapes, ts \in LazyTapes :
         \E ub \in ModZero(size) :
            FindReturns(t, size, iso_alloc_find(lazy_zones(ts), -1, size, rs, ub))
    /\ root' = Installed
    /\ budget' = [budget EXCEPT !.alloc = @ - 1]
    /\ UNCHANGED <<live, freed, perm, asked, chase, s2>>
    /\ prng' = lazy_prng

\* thread t has run lines 594-620 with outcome rd
ReadReturns(t, rd) ==
    /\ zones' = rd.zones
    /\ aborted' = rd.abort
    /\ threads' = [threads EXCEPT ![t] =
                      IF rd.abort # "" THEN Idle
                      ELSE [threads[t] EXCEPT !.pc = "read", !.b = rd.b]]
    /\ lastOp' = IF rd.abort # "" THEN AllocOp(threads[t].size, 0) ELSE lastOp

\* thread t runs lines 594-620: it reads the bitmap word of its slot
AllocRead(t) ==
    /\ aborted = ""
    /\ threads[t].pc = "found"
    /\ ReadReturns(t, take_read(zones, threads[t].zi, threads[t].free_bit_slot))
    /\ UNCHANGED <<live, freed, perm, asked, chase, s2, budget, root>>
    /\ prng' = prng

\* thread t runs lines 622-635: it stores the word with the bits of its slot
\* set and returns the chunk
AllocWrite(t) ==
    /\ aborted = ""
    /\ threads[t].pc = "read"
    /\ zones' = take_write(zones, threads[t].zi, threads[t].free_bit_slot, threads[t].b)
    /\ threads' = [threads EXCEPT ![t] = Idle]
    /\ AllocReturns(threads[t].size,
                    [zones |-> zones', abort |-> "",
                     ret |-> POINTER_FROM_BITSLOT(zones[threads[t].zi + 1],
                                                  threads[t].free_bit_slot)])
    /\ UNCHANGED <<perm, budget, root>>
    /\ prng' = prng

\* the state after _iso_free(p, permanent) came back with r
FreeReturns(p, permanent, r) ==
    /\ zones' = r.zones
    /\ aborted' = r.abort
    /\ lastOp' = [op |-> "free", size |-> 0, nmemb |-> 0, p |-> p,
                  permanent |-> permanent, hint |-> -1, ret |-> 0]
    /\ live' = IF r.abort = "" THEN [q \in DOMAIN live \ {p} |-> live[q]] ELSE live
    /\ freed' = IF r.abort = "" /\ ~permanent /\ p \in DOMAIN live \cup perm
                THEN freed \cup {p} ELSE freed
    /\ perm' = IF r.abort # "" THEN perm
               ELSE IF ~permanent THEN perm \ {p}
               ELSE IF p \in DOMAIN live THEN perm \cup {p} ELSE perm
    /\ chase' = IF r.abort = "" /\ ~permanent /\ p \in DOMAIN live
                THEN [p |-> p, n |-> live[p]] ELSE NoChase
    /\ s2' = IF s2.stage = 1 /\ p = s2.p /\ r.abort = "" /\ ~permanent
             THEN [s2 EXCEPT !.stage = 2] ELSE S2Off

\* _iso_free(p, permanent)
Free ==
    /\ aborted = ""
    /\ budget.free > 0
    /\ \E p \in FreeCandidates, permanent \in budget.permanent :
         FreeReturns(p, permanent, iso_free_impl(zones, p, permanent))
    /\ asked' = asked
    /\ budget' = [budget EXCEPT !.free = @ - 1]
    /\ UNCHANGED <<root, threads>>
    /\ prng' = prng

\* the program writes the first or the last CANARY_SIZE bytes of a chunk
Write ==
    /\ aborted = ""
    /\ budget.write > 0
    /\ \E i \in 1..Len(zones) : \E c \in WriteChunks(zones[i]) : \E end \in {"head", "tail"} :
         /\ zones' = [zones EXCEPT ![i].mem[c][end] = "data"]
         /\ lastOp' = [op |-> "write", size |-> 0, nmemb |-> 0,
                       p |-> ChunkAddr(zones[i], c), permanent |-> FALSE, hint |-> -1, ret |-> 0]
         /\ s2' = IF s2.stage = 2 /\ ChunkAddr(zones[i], c) = s2.p /\ end = "head"
                  THEN [s2 EXCEPT !.stage = 3] ELSE S2Off
    /\ chase' = NoChase
    /\ budget' = [budget EXCEPT !.write = @ - 1]
    /\ UNCHANGED <<aborted, live, freed, perm, asked, root, threads>>
    /\ prng' = prng

\* verify_all_zones()
Verify ==
    /\ aborted = ""
    /\ lastOp.op # "verify"
    /\ aborted' = IF verify_all_zones_aborts(zones) THEN "Canary has been corrupted" ELSE ""
    /\ lastOp' = [op |-> "verify", size |-> 0, nmemb |-> 0, p |-> 0,
                  permanent |-> FALSE, hint |-> -1, ret |-> 0]
    /\ chase' = NoChase
    /\ s2' = S2Off
    /\ UNCHANGED <<zones, live, freed, perm, asked, budget, root, threads>>
    /\ prng' = prng

\* runs of _iso_alloc and _iso_free
Next == Alloc \/ Free

Spec == Init /\ [][Next]_vars

\* runs with a stray write and verify_all_zones
InitCanary ==
    InitWith([alloc |-> MaxCanaryAllocs, free |-> MaxFrees, write |-> MaxWrites,
              sizes |-> CanarySizes, permanent |-> {FALSE}])

NextCanary == Alloc \/ Free \/ Write \/ Verify

SpecCanary == InitCanary /\ [][NextCanary]_vars

\* a direct call of iso_alloc_initialize() (lines 227-252)
Initialize ==
    /\ aborted = ""
    /\ \E ts \in [1..Len(default_zones) -> Tapes] :
         zones' = initialize_call(root, zones, ts)
    /\ root' = Installed
    /\ lastOp' = [NoOp EXCEPT !.op = "initialize"]
    /\ UNCHANGED <<aborted, live, freed, perm, asked, chase, s2, budget, threads>>
    /\ prng' = initialize_prng(root, prng)

\* iso_alloc_ctor() (lines 254-258)
Ctor ==
    /\ aborted = ""
    /\ \E ts \in [1..Len(default_zones) -> Tapes] :
         zones' = IF root.initialized = FALSE
                  THEN initialize_call(root, zones, ts) ELSE zones
    /\ root' = Installed
    /\ lastOp' = [NoOp EXCEPT !.op = "ctor"]
    /\ UNCHANGED <<aborted, live, freed, perm, asked, chase, s2, budget, threads>>
    /\ prng' = IF root.initialized = FALSE THEN initialize_prng(root, prng) ELSE prng

\* runs of requests above the default classes
InitBig ==
    InitWith([alloc |-> MaxBigAllocs, free |-> 0, write |-> 0,
              sizes |-> BigSizes, permanent |-> {FALSE}])

NextBig == Alloc

SpecBig == InitBig /\ [][NextBig]_vars

\* runs that fill the default zones
InitFill ==
    InitWith([alloc |-> MaxFillAllocs, free |-> 0, write |-> 0,
              sizes |-> FillSizes, permanent |-> {FALSE}])

NextFill == Alloc

SpecFill == InitFill /\ [][NextFill]_vars

\* runs with zones the program creates and allocations with a zone hint
InitZones ==
    InitWith([alloc |-> MaxZoneAllocs, free |-> MaxZoneFrees, write |-> 0,
              sizes |-> ZoneAllocSizes, permanent |-> {FALSE}])

NextZones == NewZone \/ Alloc \/ AllocHint \/ Free

SpecZones == InitZones /\ [][NextZones]_vars

\* runs that start before the allocator is initialized
NextInit == Initialize \/ Ctor \/ Alloc

SpecInit == InitBare /\ [][NextInit]_vars

\* runs of two threads in _iso_alloc
InitThreads ==
    InitWith([alloc |-> MaxThreadAllocs, free |-> 0, write |-> 0,
              sizes |-> ThreadSizes, permanent |-> {FALSE}])

NextThreads == \E t \in Threads : AllocFind(t) \/ AllocRead(t) \/ AllocWrite(t)

SpecThreads == InitThreads /\ [][NextThreads]_vars

\* runs of _iso_calloc and _iso_free
InitCalloc ==
    InitWith([alloc |-> MaxCallocs, free |-> MaxFrees, write |-> 0,
              sizes |-> {}, permanent |-> {FALSE}])

NextCalloc == Calloc \/ Free

SpecCalloc == InitCalloc /\ [][NextCalloc]_vars

(***************************************************************************)
(* What a pointer points at.                                               *)
(***************************************************************************)
\* the zones of zs whose user pages hold p
ZonesOf(zs, p) ==
    {i \in 1..Len(zs) : zs[i].user_pages_start <= p /\ zs[i].user_pages_end > p}

\* TRUE when p is the first byte of a chunk of zone
OnChunk(zone, p) ==
    /\ zone.user_pages_start <= p
    /\ (p - zone.user_pages_start) % zone.chunk_size = 0
    /\ ChunkOf(zone, p) < GET_CHUNK_COUNT(zone)

\* <<was used, in use>> of the chunk at p; <<0, 0>> when zs has no such chunk
PtrState(zs, p) ==
    IF \E i \in ZonesOf(zs, p) : OnChunk(zs[i], p)
    THEN LET i == CHOOSE k \in ZonesOf(zs, p) : OnChunk(zs[k], p)
         IN  ChunkState(zs[i], ChunkOf(zs[i], p))
    ELSE <<0, 0>>

\* the chunk size of the zone that holds p
ChunkSizeOf(zs, p) == zs[CHOOSE i \in ZonesOf(zs, p) : TRUE].chunk_size

\* TRUE when chunk c of zone has its was-used bit set and its first or last
\* bytes are no longer the canary written there
Corrupted(zone, c) ==
    /\ ChunkState(zone, c)[1] = 1
    /\ zone.mem[c].head # "canary" \/ zone.mem[c].tail # "canary"

\* the number of chunks of zone in state (1,1)
CanaryChunks(zone) ==
    Cardinality({c \in 0..(GET_CHUNK_COUNT(zone) - 1) : ChunkState(zone, c) = <<1, 1>>})

Returned == lastOp.op = "alloc" /\ lastOp.ret # 0

(***************************************************************************)
(* Properties.                                                             *)
(***************************************************************************)
\* C1: a pointer _iso_alloc returns is not a live allocation, and the
\* in-use bit of its chunk was clear when the call was made.
C1_Uniqueness ==
    [][(lastOp'.op = "alloc" /\ lastOp'.ret # 0)
          => /\ lastOp'.ret \notin DOMAIN live
             /\ PtrState(zones, lastOp'.ret)[2] = 0
             /\ PtrState(zones', lastOp'.ret) = <<0, 1>>]_vars

\* a freed chunk is handed out again while two other allocations are live
C1_Witness ==
    /\ Returned
    /\ aborted = ""
    /\ Cardinality(DOMAIN live) >= 2
    /\ \E i \in ZonesOf(zones, lastOp.ret) :
          zones[i].mem[ChunkOf(zones[i], lastOp.ret)].tail = "canary"

DefaultSizes == {default_zones[i] : i \in 1..Len(default_zones)}

C3_DoubleFree ==
    [][(lastOp'.op = "free" /\ lastOp'.p \in freed) => aborted' # ""]_vars

\* a second free of a pointer _iso_alloc returned is met by the abort
C3_Witness ==
    /\ lastOp.op = "free"
    /\ lastOp.p \in freed
    /\ aborted = "Double free"
    /\ budget.alloc < MaxAllocs

\* the conditions under which C4 lets _iso_free(p) go through
ValidForFree(zs, p) ==
    /\ Cardinality(ZonesOf(zs, p)) = 1
    /\ p % ALIGNMENT = 0
    /\ \A i \in ZonesOf(zs, p) : OnChunk(zs[i], p)
    /\ PtrState(zs, p) = <<0, 1>>

\* C4: _iso_free(p) of a non-NULL p aborts unless p is in exactly one zone,
\* aligned, on a chunk boundary and its chunk is in the in-use state (0,1).
C4_OnlyLiveFreed ==
    [][(lastOp'.op = "free" /\ lastOp'.p # 0 /\ ~ValidForFree(zones, lastOp'.p))
          => aborted' # ""]_vars

\* C5: a pointer freed permanently stays in state (1,1) and is not a live
\* allocation again: no later _iso_alloc returns it.
C5_PermanentFree ==
    \A p \in perm : PtrState(zones, p) = <<1, 1>> /\ p \notin DOMAIN live

\* an allocation succeeds after a permanent free
C5_Witness ==
    /\ perm # {}
    /\ Returned
    /\ aborted = ""
    /\ lastOp.ret \notin perm

NextToOverwritten(zone, p) ==
    /\ OnChunk(zone, p)
    /\ p \in DOMAIN live
    /\ \E c \in {ChunkOf(zone, p) - 1, ChunkOf(zone, p) + 1} \cap DOMAIN zone.mem :
          /\ ChunkAddr(zone, c) \in freed
          /\ ChunkState(zone, c) = <<1, 0>>
          /\ zone.mem[c].head = "data"

\* C7: freeing a chunk next to a freed chunk whose first bytes were
\* overwritten aborts, wherever in the zone the overwritten chunk is.
C7_NeighborAudit ==
    [][(lastOp'.op = "free"
          /\ \E i \in ZonesOf(zones, lastOp'.p) : NextToOverwritten(zones[i], lastOp'.p))
          => aborted' # ""]_vars

\* C8: verify_all_zones aborts when some chunk with its was-used bit set has
\* a canary that does not match.
C8_VerifyDetects ==
    [][(lastOp'.op = "verify"
          /\ \E i \in 1..Len(zones) : \E c \in DOMAIN zones[i].mem : Corrupted(zones[i], c))
          => aborted' # ""]_vars

\* C9: while the program, after a non-permanent free(p) of p = alloc(n),
\* only calls alloc(n), the allocator keeps serving it until p is returned:
\* no call aborts with p still not handed back.
C9_EventualReuse ==
    chase.p # 0 => aborted = ""

\* TRUE in the state iso_alloc_initialize leaves
Fresh == lastOp.op = "init"

\* C10 as written: right after iso_new_zone the number of chunks of a
\* default zone in state (1,1) is within 1 of chunk_count / CANARY_COUNT_DIV.
C10_AsWritten ==
    Fresh => \A i \in 1..Len(zones) :
        LET canary_count == GET_CHUNK_COUNT(zones[i]) \div CANARY_COUNT_DIV
        IN  /\ CanaryChunks(zones[i]) >= canary_count - 1
            /\ CanaryChunks(zones[i]) <= canary_count + 1

\* C10: right after iso_new_zone the number of chunks of a default zone in
\* state (1,1) is at least 1 and at most chunk_count / CANARY_COUNT_DIV: the
\* random indexes may coincide, and each marks one chunk.
C10_CanaryDensity ==
    Fresh => \A i \in 1..Len(zones) :
        LET canary_count == GET_CHUNK_COUNT(zones[i]) \div CANARY_COUNT_DIV
        IN  /\ CanaryChunks(zones[i]) >= 1
            /\ CanaryChunks(zones[i]) <= canary_count

\* a fresh zone whose random indexes coincided: fewer canary chunks than drawn
C10_Witness ==
    /\ Fresh
    /\ CanaryChunks(zones[1]) = 2
    /\ GET_CHUNK_COUNT(zones[1]) \div CANARY_COUNT_DIV = 3

\* C11: _iso_calloc(nmemb, size) aborts on its overflow check whenever the
\* product nmemb * size is larger than the largest size_t.
C11_CallocOverflow ==
    [][(lastOp'.op = "calloc" /\ lastOp'.nmemb * lastOp'.size > SIZE_MAX)
          => aborted' = "Call to calloc() will overflow"]_vars

\* C12: the calls of two threads are serialized, so an _iso_alloc call of
\* one thread never returns an address that is a live allocation (one
\* returned to the other thread and not freed).
C12_MutualExclusion ==
    [][\A t \in Threads :
          (threads[t].pc = "read" /\ threads'[t].pc = "idle" /\ aborted' = "")
             => lastOp'.ret \notin DOMAIN live]_vars

\* C13: once the root is installed, a call of iso_alloc_initialize, direct or
\* from the constructor, leaves the root and every zone (bitmap, secrets,
\* cache) as they were, and the lazy initialization of _iso_alloc starts
\* from the zones as they are.
C13_Idempotent ==
    [][root.installed =>
          /\ lastOp'.op \in {"initialize", "ctor"} => (zones' = zones /\ root' = root)
          /\ \A ts \in LazyTapes : lazy_zones(ts) = zones]_vars

\* iso_alloc_initialize was called while an allocation was live
C13_Witness ==
    /\ lastOp.op = "initialize"
    /\ live # <<>>
    /\ \E i \in 1..Len(zones) : zones[i].next_free_bit_slot = BAD_BIT_SLOT

\* TRUE when serving size from a zone of chunk size cs wastes memory
Wasteful(cs, size) == cs >= size * WASTED_SZ_MULTIPLIER /\ size > ZONE_1024

\* C14 as written: a pointer _iso_alloc(NULL, size) returns for a size above
\* ZONE_1024 is never a chunk of a zone whose chunk size is
\* size * WASTED_SZ_MULTIPLIER or more, primed or not.
C14_AsWritten ==
    (Returned /\ lastOp.hint = -1)
        => ~Wasteful(ChunkSizeOf(zones, lastOp.ret), lastOp.size)

\* C14: a pointer _iso_alloc(NULL, size) returns for a size above ZONE_1024
\* is a chunk of a zone whose chunk size is size * WASTED_SZ_MULTIPLIER or
\* more only when that zone had its next_free_bit_slot primed before the
\* call (is_zone_usable returns a primed zone before the waste check).
C14_WasteAvoidance ==
    [][(lastOp'.op = "alloc" /\ lastOp'.hint = -1 /\ lastOp'.ret # 0
          /\ Wasteful(ChunkSizeOf(zones', lastOp'.ret), lastOp'.size))
         => \E i \in ZonesOf(zones, lastOp'.ret) :
               zones[i].next_free_bit_slot # BAD_BIT_SLOT]_vars

\* a request above ZONE_1024 got a chunk of another zone while a zone that
\* fits it, with free chunks and no primed slot, was too large for it
C14_Witness ==
    /\ Returned
    /\ lastOp.hint = -1
    /\ \E i \in 1..Len(zones) :
          /\ zones[i].internally_managed
          /\ ~zones[i].is_full
          /\ iso_scan_zone_free_slot_slow(zones[i]) # BAD_BIT_SLOT
          /\ zones[i].next_free_bit_slot = BAD_BIT_SLOT
          /\ Wasteful(zones[i].chunk_size, lastOp.size)
          /\ i \notin ZonesOf(zones, lastOp.ret)

\* the smallest default size class that is size or more
SmallestClass(size) ==
    CHOOSE d \in DefaultSizes : d >= size /\ \A e \in DefaultSizes : e >= size => d <= e

\* C15: when _iso_alloc(NULL, size) creates a zone for a size that is not
\* above every default class, the chunk size of the zone is the smallest
\* default class that is size or more.
C15_NewZoneSize ==
    [][(lastOp'.op = "alloc" /\ lastOp'.hint = -1 /\ Len(zones') > Len(zones)
          /\ lastOp'.size <= MaxDefault)
         => zones'[Len(zones')].chunk_size = SmallestClass(lastOp'.size)]_vars

\* the number of chunks the bitmap of zone has state bits for
BitmapChunks(zone) == max_bitmap_idx(zone) * (BITS_PER_DWORD \div BITS_PER_CHUNK)

\* C16: _iso_alloc(NULL, size) for a size above every default class and at
\* most ZONE_USER_SIZE, with room in the zone table, does not abort or
\* fault and returns a chunk; the zone it creates has the size rounded up to
\* ALIGNMENT as chunk size and a bitmap that covers every chunk.
C16_Oversized ==
    [][(lastOp'.op = "alloc" /\ lastOp'.hint = -1 /\ Len(zones) < MAX_ZONES
          /\ lastOp'.size > MaxDefault /\ lastOp'.size <= ZONE_USER_SIZE)
         => /\ aborted' = ""
            /\ lastOp'.ret # 0
            /\ Len(zones') > Len(zones) =>
                  /\ zones'[Len(zones')].chunk_size = ROUND_UP_SZ(lastOp'.size)
                  /\ BitmapChunks(zones'[Len(zones')])
                        >= GET_CHUNK_COUNT(zones'[Len(zones')])]_vars

\* C17: a pointer _iso_alloc returns when called without a zone is a chunk
\* of an internally managed zone.
C17_ZoneIsolation ==
    (Returned /\ lastOp.hint = -1)
        => \A i \in ZonesOf(zones, lastOp.ret) : zones[i].internally_managed

\* a request without a zone was served while a zone that is not internally
\* managed had a primed slot and chunks large enough for it
C17_Witness ==
    /\ Returned
    /\ lastOp.hint = -1
    /\ \E i \in 1..Len(zones) :
          /\ ~zones[i].internally_managed
          /\ zones[i].chunk_size >= lastOp.size
          /\ zones[i].next_free_bit_slot # BAD_BIT_SLOT
          /\ \A k \in ZonesOf(zones, lastOp.ret) : k > i

\* C18: a pointer _iso_alloc(zone, size) returns for a zone that is not NULL
\* is a chunk of that zone and of no other, and the chunk size of the zone
\* is size or more.
C18_HintedAlloc ==
    (Returned /\ lastOp.hint # -1)
        => /\ ZonesOf(zones, lastOp.ret) = {lastOp.hint + 1}
           /\ zones[lastOp.hint + 1].chunk_size >= lastOp.size

\* C19: in every zone the read cursor of the free bit slot cache is at most
\* the write cursor, and the write cursor at most BIT_SLOT_CACHE_SZ.
C19_CacheCursor ==
    \A i \in 1..Len(zones) :
        /\ zones[i].free_bit_slot_cache_usable <= zones[i].free_bit_slot_cache_index
        /\ zones[i].free_bit_slot_cache_index <= BIT_SLOT_CACHE_SZ

\* TRUE of a step that leaves the two state bits of every chunk but the one
\* at p as they were
FrameExcept(p) ==
    \A i \in 1..Len(zones) : \A c \in 0..(GET_CHUNK_COUNT(zones[i]) - 1) :
        ChunkAddr(zones[i], c) # p => ChunkState(zones'[i], c) = ChunkState(zones[i], c)

\* C20: an _iso_alloc that returns p moves the chunk at p from (0,0) or
\* (1,0) to (0,1); an _iso_free(p, permanent) of a live allocation p moves
\* the chunk at p from (0,1) to (1,0), or to (1,1) when permanent; both
\* leave the state bits of every other chunk of every zone as they were.
C20_Transitions ==
    [][/\ (lastOp'.op = "alloc" /\ lastOp'.ret # 0)
            => /\ PtrState(zones, lastOp'.ret) \in {<<0, 0>>, <<1, 0>>}
               /\ PtrState(zones', lastOp'.ret) = <<0, 1>>
               /\ FrameExcept(lastOp'.ret)
       /\ (lastOp'.op = "free" /\ aborted' = "" /\ lastOp'.p \in DOMAIN live)
            => /\ PtrState(zones, lastOp'.p) = <<0, 1>>
               /\ PtrState(zones', lastOp'.p) =
                     (IF lastOp'.permanent THEN <<1, 1>> ELSE <<1, 0>>)
               /\ FrameExcept(lastOp'.p)]_vars

\* a live allocation was freed permanently while the other chunk of its
\* bitmap word was a live allocation
C20_Witness ==
    /\ lastOp.op = "free"
    /\ aborted = ""
    /\ lastOp.permanent
    /\ lastOp.p \in perm
    /\ PtrState(zones, lastOp.p) = <<1, 1>>
    /\ \E q \in DOMAIN live : \E i \in ZonesOf(zones, q) :
          /\ i \in ZonesOf(zones, lastOp.p)
          /\ (ChunkOf(zones[i], q) * BITS_PER_CHUNK) \div BITS_PER_DWORD
               = (ChunkOf(zones[i], lastOp.p) * BITS_PER_CHUNK) \div BITS_PER_DWORD

\* C21: in every state the allocator's operations reach, a chunk whose
\* was-used bit is set (state (1,0) or (1,1)) holds the canary in its first
\* and in its last CANARY_SIZE bytes.
C21_CanaryInvariant ==
    \A i \in 1..Len(zones) : \A c \in 0..(GET_CHUNK_COUNT(zones[i]) - 1) :
        ChunkState(zones[i], c)[1] = 1
            => zones[i].mem[c] = [head |-> "canary", tail |-> "canary"]

\* a zone without canary chunks holds a permanently freed chunk, and a chunk
\* freed by the program is in state (1,0)
C21_Witness ==
    /\ aborted = ""
    /\ \E i \in 1..Len(zones) : \E c \in 0..(GET_CHUNK_COUNT(zones[i]) - 1) :
          /\ zones[i].chunk_size > MAX_DEFAULT_ZONE_SZ
          /\ ChunkState(zones[i], c) = <<1, 1>>
    /\ \E p \in freed : PtrState(zones, p) = <<1, 0>>

\* C22: once the allocator is initialized, the generator has been seeded
\* and no value was drawn from it before the seed.
C22_SeedFirst ==
    root.initialized => (prng.seeded /\ prng.unseeded = 0)

\* TRUE when the two state bits of chunk c lie within the bitmap_size bytes
\* of the bitmap of zone
InBitmap(zone, c) == (c * BITS_PER_CHUNK) + 1 < zone.bitmap_size * BITS_PER_BYTE

\* C23: a zone with is_full set has no chunk with a clear in-use bit within
\* its bitmap; a step that sets is_full leaves a zone in which the slow scan
\* finds no slot; a free into a zone leaves its is_full clear.
C23_IsFullSound ==
    [][/\ \A i \in 1..Len(zones') :
             zones'[i].is_full =>
                /\ \A c \in 0..(GET_CHUNK_COUNT(zones'[i]) - 1) :
                      InBitmap(zones'[i], c) => ChunkState(zones'[i], c)[2] = 1
                /\ iso_scan_zone_free_slot_slow(zones'[i]) = BAD_BIT_SLOT
       /\ (lastOp'.op = "free" /\ aborted' = "")
             => \A i \in ZonesOf(zones', lastOp'.p) : ~zones'[i].is_full]_vars

(***************************************************************************)
(* Well-formed programs: every _iso_free is given a pointer that           *)
(* _iso_alloc returned and that was not freed since.                       *)
(***************************************************************************)
\* _iso_free(p, permanent) of a live pointer
FreeLive ==
    /\ aborted = ""
    /\ budget.free > 0
    /\ \E p \in DOMAIN live, permanent \in budget.permanent :
         FreeReturns(p, permanent, iso_free_impl(zones, p, permanent))
    /\ asked' = asked
    /\ budget' = [budget EXCEPT !.free = @ - 1]
    /\ UNCHANGED <<root, threads>>
    /\ prng' = prng

NextLive == Alloc \/ FreeLive

SpecLive == Init /\ [][NextLive]_vars

\* the entries of the free-slot cache of zone that get_next_free_bit_slot
\* can still pop
ValidCacheEntries(zone) ==
    {zone.free_bit_slot_cache[k] :
        k \in {j \in 0..(BIT_SLOT_CACHE_SZ - 1) :
                  /\ zone.free_bit_slot_cache_usable <= j
                  /\ j < zone.free_bit_slot_cache_index}} \ {BAD_BIT_SLOT}

\* C24: while the zone table has room, no well-formed operation aborts and
\* every valid entry of a zone's free-slot cache names a chunk whose in-use
\* bit is 0.
C24_NoSpuriousAbort ==
    Len(zones) < MAX_ZONES =>
        /\ aborted = ""
        /\ \A i \in 1..Len(zones) : \A b \in ValidCacheEntries(zones[i]) :
              ChunkState(zones[i], b \div BITS_PER_CHUNK)[2] = 0

\* TRUE when every chunk of zs whose was-used bit is set, the freed chunks
\* and the canary chunks, holds the canary at both ends
CanariesIntact(zs) ==
    \A i \in 1..Len(zs) : \A c \in 0..(GET_CHUNK_COUNT(zs[i]) - 1) :
        ChunkState(zs[i], c)[1] = 1
            => zs[i].mem[c] = [head |-> "canary", tail |-> "canary"]

\* C25: verify_all_zones does not abort when every freed chunk and every
\* canary chunk holds an intact canary, whatever the chunks in use hold.
C25_NoFalsePositive ==
    [][(lastOp'.op = "verify" /\ CanariesIntact(zones)) => aborted' = ""]_vars

====
